---- MODULE Spec2Model ----
(***************************************************************************)
(* Model of the QR decoding worker's task scheduler                        *)
(* (services/qrWorker.ts: processQueue and self.onmessage) and of the      *)
(* part of App.tsx that feeds it and consumes its events.                  *)
(*                                                                         *)
(* The worker is a single-threaded event loop.  One action of the model    *)
(* is one macrotask of that loop (a message handler or a timer callback)   *)
(* up to the point where the running processQueue suspends at an await,    *)
(* or the continuation of processQueue after that await.                   *)
(***************************************************************************)
EXTENDS Integers, Sequences, FiniteSets, TLC

\* ------------------------------------------------------------------ bounds
MaxTasks == 3      \* number of image / imageData messages the producer sends
                   \* (it sends each file and each page at most once)
MaxPages == 2      \* number of pages of the document a.pdf
MaxSignals == 1    \* number of allFilesSent messages the producer sends

\* ------------------------------------------------- the producer's inputs
\* The image files and documents the producer can submit.  What a buffer
\* holds is a property of the file or page it was rendered from.
ImageFiles == {"x.png", "y.png"}
PdfFiles == {"a.pdf", "b.pdf"}

NumPages(f) == IF f = "a.pdf" THEN MaxPages ELSE 1

\* The pixel buffer rendered from page p of document f: page 2 of a.pdf
\* holds one code, its other pages are blank, and the buffer of b.pdf is
\* unusable (drawing it raises).
PageImage(f, p) ==
  IF f = "a.pdf" THEN (IF p = 2 THEN "hello" ELSE "blank") ELSE "bad"

PageMessages ==
  UNION { { [parentFileName |-> f, pageNum |-> p,
             imageData |-> PageImage(f, p)] : p \in 1..NumPages(f) } :
          f \in PdfFiles }

VARIABLES
  processingComplete,   \* qrWorker.ts:665
  messageQueue,         \* qrWorker.ts:666
  isProcessing,         \* qrWorker.ts:667
  processedPages,       \* qrWorker.ts:668
  totalExpectedPages,   \* qrWorker.ts:669
  current,              \* the item of the processQueue call suspended at its await
  timers,               \* number of pending setTimeout(processQueue, 0)
  posted,               \* what the last macrotask posted to the main thread
  submitted,            \* the task messages received so far
  signals,              \* number of allFilesSent received
  lateSubmit,           \* TRUE once a task arrived after an allFilesSent
  completes,            \* number of 'complete' events posted so far
  pops,                 \* arrival number and type of the items shifted off the queue, in order
  surfaces,             \* the pixels of the caller's imageData and of the canvas of findAllQrCodesInImageData
  failing,              \* the calls that fail during the detection under study
  pc,                   \* where that call of findAllQrCodesInImageData stands
  strategies,           \* qrWorker.ts:536, the promises of the strategies called so far
  returned,             \* what the calls of findAllQrCodesInImageData returned, in order
  scan,                 \* context, foundCodes and attempts of the scanAndClearLoop under study
  run,                  \* the strategy under study: its name, the canvas it is given, what it returns
  pixels,               \* the binarization under study: its method, its imageData, what it returns
  qrCodeCache,          \* qrGenerator.ts:13, the keys of the map in insertion order
  pending,              \* the cache key of the generateQRCode call awaiting QRCode.toDataURL, or NoKey
  used,                 \* the keys of the map, least recently used first
  status,               \* App.tsx:94, 'idle', 'processing' or 'results'
  timerRef,             \* App.tsx:101, the elapsed-time interval
  copiedTimeoutRef,     \* App.tsx:105, the reset of the decoded list's 'copied' mark
  generatedCopiedTimeoutRef, \* App.tsx:106, the reset of the generated list's mark
  copiedInfo,           \* App.tsx:97, the decoded code marked 'copied', or NoCopy
  copiedGeneratedId,    \* App.tsx:112, the generated code marked 'copied', or NoCopy
  elapsedTime           \* App.tsx:98

schedulerVars ==
  <<processingComplete, messageQueue, isProcessing, processedPages,
    totalExpectedPages, current, timers, posted, submitted, signals,
    lateSubmit, completes, pops>>

engineVars == <<surfaces, failing, pc, strategies, returned, scan>>

\* The state of the parts studied on their own.
cacheVars == <<qrCodeCache, pending, used>>

appVars ==
  <<status, timerRef, copiedTimeoutRef, generatedCopiedTimeoutRef,
    copiedInfo, copiedGeneratedId, elapsedTime>>

otherVars == <<run, pixels, cacheVars, appVars>>

vars == <<schedulerVars, engineVars, otherVars>>

\* The scheduler after the worker's script has run (lines 665-669).
SchedulerInit ==
  /\ processingComplete = FALSE
  /\ messageQueue = <<>>
  /\ isProcessing = FALSE
  /\ processedPages = 0
  /\ totalExpectedPages = 0
  /\ current = <<>>
  /\ timers = 0
  /\ posted = <<>>
  /\ submitted = {}
  /\ signals = 0
  /\ lateSubmit = FALSE
  /\ completes = 0
  /\ pops = <<>>

\* No generateQRCode call awaits its data URL.
NoKey == 0

\* The cache of qrGenerator.ts after the module has loaded (line 13).
CacheInit ==
  /\ qrCodeCache = <<>>
  /\ pending = NoKey
  /\ used = <<>>

\* Nothing is marked 'copied' (a null state or ref).
NoCopy == 0

\* The App component when it is mounted (App.tsx lines 94-112): no timer
\* is set and nothing is marked.
AppInit ==
  /\ status = "idle"
  /\ timerRef = "null"
  /\ copiedTimeoutRef = "null"
  /\ generatedCopiedTimeoutRef = "null"
  /\ copiedInfo = NoCopy
  /\ copiedGeneratedId = NoCopy
  /\ elapsedTime = 0

\* No strategy and no binarization is under study, nothing has been
\* generated and the user has done nothing.
OthersIdle ==
  /\ run = [strategy |-> "none", done |-> FALSE]
  /\ pixels = [method |-> "none", done |-> FALSE]
  /\ CacheInit
  /\ AppInit

\* --------------------------------------------------------- pixel buffers
\* A buffer is described by what a decoder can find in its pixels: its
\* dimensions, the code symbols printed in it that have not been painted
\* over (in the order jsQR locates them), and the transforms its pixels went
\* through.  A symbol is a square with a payload, a position, a side and an
\* ink: "crisp" is black on white, "faint" is low-contrast.
Mark(data, x, y, size, ink) ==
  [data |-> data, x |-> x, y |-> y, size |-> size, ink |-> ink]

PixelBuffer(width, height, marks) ==
  [width |-> width, height |-> height, marks |-> marks, look |-> <<>>]

\* A QR symbol has at least 21 modules a side: below 21 pixels nothing is
\* left of it.
MIN_SYMBOL == 21

\* The transforms that bring a low-contrast symbol out.
Contrasting ==
  {"adaptive-histogram", "otsu", "adaptive-15", "adaptive-25", "adaptive-35",
   "threshold-170"}

Decodable(m, look) ==
  /\ m.size >= MIN_SYMBOL
  /\ (m.ink = "crisp" \/ \E i \in 1..Len(look) : look[i] \in Contrasting)

\* jsQR(data, width, height): the first symbol it can decode, with its
\* location (here the index of the symbol in the buffer), or null.
NoCode == [found |-> FALSE, data |-> "", location |-> 0]

jsQR(imageData) ==
  LET idx == { i \in 1..Len(imageData.marks) :
                 Decodable(imageData.marks[i], imageData.look) }
  IN IF idx = {} THEN NoCode
     ELSE LET i == CHOOSE i \in idx : \A j \in idx : i <= j
          IN [found |-> TRUE, data |-> imageData.marks[i].data, location |-> i]

\* beginPath .. fill with fillStyle 'white' over the corners of a located
\* symbol: the symbol is gone from the surface.
FillSkipped(context, loc) == context
FillWhite(context, loc) ==
  [context EXCEPT !.marks = SubSeq(@, 1, loc - 1) \o SubSeq(@, loc + 1, Len(@))]

\* ------------------------------------------------------- scan and clear
maxAttempts == 10

ScanStart(context) ==
  [context |-> context, foundCodes |-> <<>>, attempts |-> 0, broke |-> FALSE]

\* The condition of the while loop of scanAndClearLoop, with the break.
ScanContinues(s) == s.attempts < maxAttempts /\ ~s.broke

\* One pass through the body of the while loop.
ScanBody(s) ==
  LET code == jsQR(s.context) IN
  IF code.found
  THEN [context |-> FillWhite(s.context, code.location),
        foundCodes |-> Append(s.foundCodes, code.data),
        attempts |-> s.attempts + 1,
        broke |-> FALSE]
  ELSE [s EXCEPT !.broke = TRUE]

RECURSIVE ScanLoop(_)
ScanLoop(s) == IF ScanContinues(s) THEN ScanLoop(ScanBody(s)) ELSE s

\* scanAndClearLoop(context, width, height): the payloads found, and the
\* surface behind context as the loop leaves it.
scanAndClearLoop(context) == ScanLoop(ScanStart(context))

\* ----------------------------------------------------------- strategies
Includes(s, x) == \E i \in 1..Len(s) : s[i] = x

\* foundCodes.push(...codes.filter(code => !foundCodes.includes(code))):
\* the filter is evaluated on foundCodes as it is before the push.
PushNewUnlessFound(foundCodes, codes) ==
  IF foundCodes # <<>> THEN foundCodes ELSE codes
PushNew(foundCodes, codes) ==
  foundCodes \o SelectSeq(codes, LAMBDA code : ~Includes(foundCodes, code))

\* The ProcessingResult of a strategy (without its timing), and the shared
\* canvas as the strategy leaves it.
StrategyReturn(foundCodes, strategy, canvas) ==
  [result |-> [qrs |-> [i \in 1..Len(foundCodes) |->
                          [data |-> foundCodes[i], page |-> 1]],
               strategy |-> strategy],
   canvas |-> canvas]

\* The scales of multiScale, in tenths, and Math.floor(v * scale).
scales == <<10, 8, 12, 6, 15, 4>>
FloorScale(v, scale) == (v * scale) \div 10
MIN_SCALED_DIMENSION == 50

\* scaledContext.drawImage(tempCanvas, 0, 0, scaledWidth, scaledHeight) on a
\* new canvas of the scaled size.
DrawScaled(original, scale) ==
  [width |-> FloorScale(original.width, scale),
   height |-> FloorScale(original.height, scale),
   marks |-> [i \in 1..Len(original.marks) |->
                [original.marks[i] EXCEPT !.x = FloorScale(@, scale),
                                          !.y = FloorScale(@, scale),
                                          !.size = FloorScale(@, scale)]],
   look |-> original.look]

\* The for loop of multiScale from the i-th scale on; AfterScale is the
\* end of its body, with foundCodes as the push left it.
RECURSIVE multiScaleLoop(_, _, _)
AfterScaleWithoutBreak(original, i, foundCodes) ==
  multiScaleLoop(original, i + 1, foundCodes)
AfterScale(original, i, foundCodes) ==
  IF Len(foundCodes) > 0 THEN foundCodes
  ELSE multiScaleLoop(original, i + 1, foundCodes)

multiScaleLoop(original, i, foundCodes) ==
  IF i > Len(scales) THEN foundCodes
  ELSE IF \/ FloorScale(original.width, scales[i]) < MIN_SCALED_DIMENSION
          \/ FloorScale(original.height, scales[i]) < MIN_SCALED_DIMENSION
       THEN multiScaleLoop(original, i + 1, foundCodes)
       ELSE AfterScale(original, i,
              PushNew(foundCodes,
                scanAndClearLoop(DrawScaled(original, scales[i])).foundCodes))

\* multiScale(canvas, context) scans canvases of its own and leaves the
\* shared canvas as it is.
multiScale(canvas) ==
  StrategyReturn(multiScaleLoop(canvas, 1, <<>>), "multi-scale", canvas)

\* The processors of enhancedPreprocessing and the methods of
\* advancedBinarization, in the order they are tried.  Each is applied to a
\* copy of the pixels the strategy read when it started; 'original'
\* returns its argument.
preprocessingSteps ==
  <<"original", "gaussian-blur", "unsharp-mask", "adaptive-histogram",
    "morphological-close">>

binarizationMethods ==
  <<"otsu", "adaptive-15", "adaptive-25", "adaptive-35", "threshold-85",
    "threshold-128", "threshold-170">>

Process(step, imageData) ==
  IF step = "original" THEN imageData
  ELSE [imageData EXCEPT !.look = Append(@, step)]

\* The for loop shared by enhancedPreprocessing and advancedBinarization
\* from the i-th step on: putImageData of the processed copy on the shared
\* canvas, scan and clear on the shared canvas, stop at the first hit.
\* AfterStep is the end of the body, with the outcome of the scan.
RECURSIVE PipelineLoop(_, _, _, _, _)
AfterStepWithoutBreak(steps, original, i, foundCodes, loop) ==
  PipelineLoop(steps, original, i + 1,
               PushNew(foundCodes, loop.foundCodes), loop.context)
AfterStep(steps, original, i, foundCodes, loop) ==
  IF Len(PushNew(foundCodes, loop.foundCodes)) > 0
  THEN [foundCodes |-> PushNew(foundCodes, loop.foundCodes),
        canvas |-> loop.context]
  ELSE PipelineLoop(steps, original, i + 1,
                    PushNew(foundCodes, loop.foundCodes), loop.context)

PipelineLoop(steps, original, i, foundCodes, canvas) ==
  IF i > Len(steps) THEN [foundCodes |-> foundCodes, canvas |-> canvas]
  ELSE AfterStep(steps, original, i, foundCodes,
                 scanAndClearLoop(Process(steps[i], original)))

PipelineReturn(r, strategy) == StrategyReturn(r.foundCodes, strategy, r.canvas)

enhancedPreprocessing(canvas) ==
  PipelineReturn(PipelineLoop(preprocessingSteps, canvas, 1, <<>>, canvas),
                 "enhanced-preprocessing")

advancedBinarization(canvas) ==
  PipelineReturn(PipelineLoop(binarizationMethods, canvas, 1, <<>>, canvas),
                 "advanced-binarization")

\* The tiles of regionBasedScanning.  The buffers of the model have
\* dimensions that are multiples of 10, for which regionSize, overlap and
\* step are whole numbers.
MAX_REGION_SIZE == 512
MIN_REGION_DIMENSION == 100
Min(a, b) == IF a < b THEN a ELSE b
Max(a, b) == IF a > b THEN a ELSE b
RegionSize(canvas) ==
  Min(MAX_REGION_SIZE, Max(canvas.width, canvas.height) \div 2)
RegionStep(canvas) == RegionSize(canvas) - (RegionSize(canvas) * 2) \div 10

\* regionContext.drawImage(tempCanvas, x, y, w, h, 0, 0, w, h) on a new
\* canvas of size w x h: the symbols that lie wholly inside the region.
DrawRegion(original, x, y, w, h) ==
  LET inside(m) == /\ m.x >= x /\ m.x + m.size <= x + w
                   /\ m.y >= y /\ m.y + m.size <= y + h
      kept == SelectSeq(original.marks, inside)
  IN [width |-> w, height |-> h,
      marks |-> [i \in 1..Len(kept) |->
                   [kept[i] EXCEPT !.x = @ - x, !.y = @ - y]],
      look |-> original.look]

\* The two nested for loops of regionBasedScanning from the tile at (x, y)
\* on.
RECURSIVE RegionLoop(_, _, _, _)
RegionLoop(original, x, y, foundCodes) ==
  IF y >= original.height THEN foundCodes
  ELSE IF x >= original.width
       THEN RegionLoop(original, 0, y + RegionStep(original), foundCodes)
       ELSE LET w == Min(RegionSize(original), original.width - x)
                h == Min(RegionSize(original), original.height - y)
            IN IF w < MIN_REGION_DIMENSION \/ h < MIN_REGION_DIMENSION
               THEN RegionLoop(original, x + RegionStep(original), y, foundCodes)
               ELSE RegionLoop(original, x + RegionStep(original), y,
                      PushNew(foundCodes,
                        scanAndClearLoop(DrawRegion(original, x, y, w, h)).foundCodes))

regionBasedScanning(canvas) ==
  StrategyReturn(RegionLoop(canvas, 0, 0, <<>>), "region-based", canvas)

\* The four strategies in the order findAllQrCodesInImageData calls them.
\* None of them awaits anything: each runs to its end, or to the statement
\* that throws, inside the call that creates its promise.
Strategies ==
  <<"multi-scale", "enhanced-preprocessing", "advanced-binarization",
    "region-based">>

RunStrategy(strategy, canvas) ==
  CASE strategy = "multi-scale" -> multiScale(canvas)
    [] strategy = "enhanced-preprocessing" -> enhancedPreprocessing(canvas)
    [] strategy = "advanced-binarization" -> advancedBinarization(canvas)
    [] strategy = "region-based" -> regionBasedScanning(canvas)

\* The promise a strategy call returns, and the shared canvas after the
\* call.  fails holds the calls that fail; a strategy in it
\* throws at its first statement that touches the canvas.
Fulfilled(r) ==
  [promise |-> [status |-> "fulfilled", value |-> r.result],
   canvas |-> r.canvas]

CallStrategy(strategy, canvas, fails) ==
  IF strategy \in fails
  THEN [promise |-> [status |-> "rejected"], canvas |-> canvas]
  ELSE Fulfilled(RunStrategy(strategy, canvas))

\* ------------------------------------------------------ detection engine
\* Promise.allSettled(strategies) and the forEach over its outcome (lines
\* 543-552): the values of the fulfilled promises, in call order.  threw
\* says whether the await raises into the catch clause of line 581.
SettleFailingFast(promises) ==
  [threw |-> \E i \in 1..Len(promises) : promises[i].status = "rejected",
   allResults |-> <<>>]
Settle(promises) ==
  LET fulfilled == SelectSeq(promises, LAMBDA p : p.status = "fulfilled")
  IN [threw |-> FALSE,
      allResults |-> [i \in 1..Len(fulfilled) |-> fulfilled[i].value]]

RECURSIVE AllQrs(_)
AllQrs(allResults) ==
  IF allResults = <<>> THEN <<>>
  ELSE Head(allResults).qrs \o AllQrs(Tail(allResults))

\* The two nested forEach of lines 555-565 over the codes of allResults:
\* a code is pushed to finalQRs unless uniqueCodes has its data.
RECURSIVE CombineKeepingDuplicates(_, _)
CombineKeepingDuplicates(qrs, pageNum) ==
  IF qrs = <<>> THEN <<>>
  ELSE Append(CombineKeepingDuplicates(SubSeq(qrs, 1, Len(qrs) - 1), pageNum),
              [data |-> qrs[Len(qrs)].data, page |-> pageNum])

RECURSIVE Combine(_, _)
Combine(qrs, pageNum) ==
  IF qrs = <<>> THEN <<>>
  ELSE LET finalQRs == Combine(SubSeq(qrs, 1, Len(qrs) - 1), pageNum)
           qr == qrs[Len(qrs)]
       IN IF \E i \in 1..Len(finalQRs) : finalQRs[i].data = qr.data
          THEN finalQRs
          ELSE Append(finalQRs, [data |-> qr.data, page |-> pageNum])

\* The try statement of findAllQrCodesInImageData: what it returns for the
\* promises of the four calls.
MergeSettled(settled, pageNum) ==
  IF settled.threw THEN <<>>
  ELSE Combine(AllQrs(settled.allResults), pageNum)

JoinAndMerge(promises, pageNum) == MergeSettled(Settle(promises), pageNum)

\* The promises of the strategy calls from the i-th on, each call working
\* on the shared canvas as the calls before it left it.
RECURSIVE CallAll(_, _, _)
CallNext(i, c, fails) == <<c.promise>> \o CallAll(i + 1, c.canvas, fails)

CallAll(i, canvas, fails) ==
  IF i > Len(Strategies) THEN <<>>
  ELSE CallNext(i, CallStrategy(Strategies[i], canvas, fails), fails)

\* findAllQrCodesInImageData(imageData, pageNum) as a function of the
\* pixels it is given and of the calls that fail.
Detect(imageData, pageNum, fails) ==
  IF "getContext" \in fails THEN <<>>
  ELSE JoinAndMerge(CallAll(1, imageData, fails), pageNum)

\* The pixels behind the buffers of the producer.
Pixels(img) ==
  IF img = "hello"
  THEN PixelBuffer(600, 600, <<Mark("HELLO", 200, 200, 200, "crisp")>>)
  ELSE PixelBuffer(600, 600, <<>>)

\* Constructing the canvas or putImageData raises for an unusable buffer
\* (these statements are outside the try of findAllQrCodesInImageData).
Throws(img) == img = "bad"

\* pageNum: number = 1
DEFAULT_PAGE_NUM == 1

\* The image files: x.png decodes to a buffer with one code, y.png is not
\* an image (createImageBitmap rejects).
Decodes(file) == file = "x.png"
FileImage(file) == IF file = "x.png" THEN "hello" ELSE "blank"

\* The buffers and the page numbers the scheduler hands to the detection,
\* and what the detection returns for each of them.
Images ==
  {FileImage(file) : file \in ImageFiles}
    \cup {data.imageData : data \in PageMessages}
PageNums == {DEFAULT_PAGE_NUM} \cup {data.pageNum : data \in PageMessages}

Detected ==
  [img \in Images, pageNum \in PageNums |-> Detect(Pixels(img), pageNum, {})]

findAllQrCodesInImageData(img, pageNum) == Detected[img, pageNum]

\* What decoding finds in a buffer, as far as the scheduler is concerned:
\* the payloads, in the order findAllQrCodesInImageData returns them.
Payloads(img) ==
  [i \in 1..Len(findAllQrCodesInImageData(img, 1)) |->
     findAllQrCodesInImageData(img, 1)[i].data]

\* decodeQrFromImage: its catch clause returns [] for whatever is raised
\* by createImageBitmap, by the missing context or by the decoding.
decodeQrFromImage(file) ==
  IF Decodes(file) THEN findAllQrCodesInImageData(FileImage(file), 1)
  ELSE <<>>

processFile(file) ==
  LET qrs == decodeQrFromImage(file) IN
  [fileName |-> file,
   status |-> IF Len(qrs) > 0 THEN "success" ELSE "no_qr_found",
   qrs |-> qrs]

\* ----------------------------------------- the detection, step by step
\* The buffers detection is studied on.  Sheet(n) is a page of n labels
\* with different payloads.
MaxMarks == 11     \* number of labels on the largest sheet
MaxCalls == 2      \* number of calls of findAllQrCodesInImageData on one buffer

Sheet(n) ==
  PixelBuffer(600, 600,
    [i \in 1..n |-> Mark(ToString(i), 10 + 110 * ((i - 1) % 5),
                         10 + 110 * ((i - 1) \div 5), 40, "crisp")])

SourceBuffers ==
  { Sheet(n) : n \in 0..MaxMarks } \cup
  { Pixels("hello"),
    PixelBuffer(600, 600, <<Mark("A", 20, 20, 200, "crisp"),
                            Mark("B", 350, 350, 200, "crisp")>>),
    PixelBuffer(600, 600, <<Mark("A", 20, 20, 200, "crisp"),
                            Mark("A", 350, 350, 200, "crisp")>>),
    PixelBuffer(600, 600, <<Mark("A", 20, 20, 200, "crisp"),
                            Mark("B", 350, 350, 200, "crisp"),
                            Mark("A", 20, 350, 200, "crisp")>>),
    PixelBuffer(600, 600, <<Mark("F", 20, 20, 200, "faint")>>),
    PixelBuffer(600, 600, <<Mark("T", 20, 20, 16, "crisp")>>),
    PixelBuffer(120, 120, <<Mark("M", 10, 10, 100, "crisp")>>),
    PixelBuffer(40, 40, <<>>),
    PixelBuffer(40, 40, <<Mark("S", 5, 5, 30, "crisp")>>),
    PixelBuffer(600, 40, <<Mark("W", 300, 5, 30, "crisp")>>) }

\* The calls that can fail: each strategy can throw, and getContext can
\* return null.
Calls ==
  {"getContext"} \cup { Strategies[i] : i \in 1..Len(Strategies) }

NoSurface == PixelBuffer(0, 0, <<>>)

\* The surface findAllQrCodesInImageData hands to its strategies: the
\* OffscreenCanvas it constructs, not the caller's buffer.
WorkingSurfaceIsSource == "imageData"
WorkingSurface == "canvas"

EngineIdle ==
  /\ surfaces = [imageData |-> NoSurface, canvas |-> NoSurface]
  /\ failing = {}
  /\ pc = "idle"
  /\ strategies = <<>>
  /\ returned = <<>>
  /\ scan = ScanStart(NoSurface)

\* Lines 525-533: the canvas, its context, putImageData.
DetectEntry ==
  /\ pc = "entry"
  /\ strategies' = <<>>
  /\ IF "getContext" \in failing
     THEN /\ returned' = Append(returned, <<>>)
          /\ pc' = "done"
          /\ UNCHANGED surfaces
     ELSE /\ surfaces' = [surfaces EXCEPT ![WorkingSurface] = surfaces.imageData]
          /\ pc' = "strategies"
          /\ UNCHANGED returned
  /\ UNCHANGED <<schedulerVars, otherVars, failing, scan>>

\* Lines 536-541: the next element of the array of promises is evaluated.
DetectCallStrategy ==
  /\ pc = "strategies"
  /\ LET c == CallStrategy(Strategies[Len(strategies) + 1],
                           surfaces[WorkingSurface], failing)
     IN /\ strategies' = Append(strategies, c.promise)
        /\ surfaces' = [surfaces EXCEPT ![WorkingSurface] = c.canvas]
  /\ pc' = IF Len(strategies) + 1 = Len(Strategies) THEN "await" ELSE pc
  /\ UNCHANGED <<schedulerVars, otherVars, failing, returned, scan>>

\* Lines 543-584: the await of Promise.allSettled and the merge.
DetectJoin ==
  /\ pc = "await"
  /\ returned' = Append(returned, JoinAndMerge(strategies, DEFAULT_PAGE_NUM))
  /\ pc' = "done"
  /\ UNCHANGED <<schedulerVars, otherVars, surfaces, failing, strategies, scan>>

\* The caller calls findAllQrCodesInImageData again with the same buffer.
DetectAgain ==
  /\ pc = "done"
  /\ Len(returned) < MaxCalls
  /\ pc' = "entry"
  /\ UNCHANGED <<schedulerVars, otherVars, surfaces, failing, strategies, returned, scan>>

DetectInit ==
  /\ SchedulerInit
  /\ OthersIdle
  /\ \E imageData \in SourceBuffers :
        surfaces = [imageData |-> imageData, canvas |-> NoSurface]
  /\ failing \in SUBSET Calls
  /\ pc = "entry"
  /\ strategies = <<>>
  /\ returned = <<>>
  /\ scan = ScanStart(NoSurface)

DetectNext ==
  \/ DetectEntry
  \/ DetectCallStrategy
  \/ DetectJoin
  \/ DetectAgain

DetectSpec == DetectInit /\ [][DetectNext]_vars

\* One pass of the while loop of scanAndClearLoop.
ScanAttempt ==
  /\ ScanContinues(scan)
  /\ scan' = ScanBody(scan)
  /\ UNCHANGED <<schedulerVars, otherVars, surfaces, failing, pc, strategies, returned>>

\* The surfaces scanAndClearLoop is studied on: the buffers as they are and
\* as a binarization leaves them.
ScanInputs ==
  SourceBuffers \cup { Process("otsu", b) : b \in SourceBuffers }

ScanInit ==
  /\ SchedulerInit
  /\ OthersIdle
  /\ surfaces = [imageData |-> NoSurface, canvas |-> NoSurface]
  /\ failing = {}
  /\ pc = "idle"
  /\ strategies = <<>>
  /\ returned = <<>>
  /\ \E context \in ScanInputs : scan = ScanStart(context)

\* The loop runs as long as its condition holds.
ScanSpec == ScanInit /\ [][ScanAttempt]_vars /\ WF_vars(ScanAttempt)

\* ------------------------------------------------ one strategy, alone
\* The canvases a strategy is studied on: the source buffers; buffers with
\* a symbol that decodes only enlarged (Y), with a crisp and a faint
\* symbol, with a symbol near the right edge (E); small buffers; and the
\* canvases enhancedPreprocessing leaves to the strategy called after it.
StrategyInputs ==
  SourceBuffers \cup
  { PixelBuffer(600, 600, <<Mark("X", 20, 20, 30, "crisp"),
                            Mark("Y", 300, 300, 18, "crisp")>>),
    PixelBuffer(600, 600, <<Mark("Y", 300, 300, 18, "crisp")>>),
    PixelBuffer(600, 600, <<Mark("A", 20, 20, 200, "crisp"),
                            Mark("F", 350, 350, 200, "faint")>>),
    PixelBuffer(30, 30, <<Mark("S", 2, 2, 25, "crisp")>>),
    PixelBuffer(60, 60, <<Mark("Y", 5, 5, 18, "crisp")>>),
    PixelBuffer(120, 120, <<Mark("N", 5, 5, 40, "crisp")>>),
    PixelBuffer(400, 400, <<Mark("A", 10, 10, 100, "crisp"),
                            Mark("B", 200, 200, 100, "crisp"),
                            Mark("E", 350, 10, 40, "crisp")>>) }
  \cup { enhancedPreprocessing(b).canvas : b \in SourceBuffers }

\* The strategy has been called and has returned r.
Ran(r) ==
  [strategy |-> run.strategy, canvas |-> run.canvas, done |-> TRUE,
   result |-> r.result, left |-> r.canvas]

\* A call of one of the four strategies, from its first statement to its
\* return.
StrategyRuns ==
  /\ run.strategy # "none"
  /\ ~run.done
  /\ run' = Ran(RunStrategy(run.strategy, run.canvas))
  /\ UNCHANGED <<schedulerVars, engineVars, pixels, cacheVars, appVars>>

StrategyInit ==
  /\ SchedulerInit
  /\ EngineIdle
  /\ pixels = [method |-> "none", done |-> FALSE]
  /\ CacheInit
  /\ AppInit
  /\ \E i \in 1..Len(Strategies), canvas \in StrategyInputs :
        run = [strategy |-> Strategies[i], canvas |-> canvas, done |-> FALSE]

StrategySpec == StrategyInit /\ [][StrategyRuns]_vars

\* ------------------------------------------------- binarization methods
\* The images the binarization methods are studied on are grey: the
\* pixel at index i (row-major, from 1) has r = g = b = data[i].
MaxSide == 3       \* largest width and height of these images
MaxShift == 1      \* largest brightness shift applied to them

GreyImage(width, height, data) ==
  [width |-> width, height |-> height, data |-> data]

\* The grey levels v for which 0.299 * v + 0.587 * v + 0.114 * v, in
\* double precision and added left to right, is below v; for every other
\* level of 0..255 it is v.  Math.round of it is v in both cases.
RoundsDown ==
  { 1, 2, 4, 8, 11, 13, 16, 22, 26, 27, 32, 39, 44, 51, 52, 54, 57,
    59, 61, 64, 78, 81, 88, 91, 95, 101, 102, 104, 108, 114, 115, 118,
    122, 127, 128, 143, 149, 156, 157, 162, 169, 175, 176, 182, 183,
    190, 195, 202, 203, 204, 208, 209, 216, 223, 225, 228, 230, 235,
    236, 239, 241, 244, 249, 251, 254 }

\* luminance < threshold, for a whole threshold.
LuminanceBelow(v, threshold) ==
  v < threshold \/ (v = threshold /\ v \in RoundsDown)

BLACK == 0
WHITE == 255

simpleThreshold(imageData, threshold) ==
  [imageData EXCEPT !.data =
     [i \in 1..Len(@) |->
        IF LuminanceBelow(@[i], threshold) THEN BLACK ELSE WHITE]]

\* otsu: the histogram of the rounded luminances, and the sum of i *
\* histogram[i].
HISTOGRAM_BINS == 256

Histogram(imageData) ==
  [l \in 0..(HISTOGRAM_BINS - 1) |->
     Cardinality({ i \in 1..Len(imageData.data) : imageData.data[i] = l })]

\* The sum of i * histogram[i] for i from lo to hi.
RECURSIVE WeightedSum(_, _, _)
WeightedSum(histogram, lo, hi) ==
  IF lo = hi THEN lo * histogram[lo]
  ELSE WeightedSum(histogram, lo, (lo + hi) \div 2)
       + WeightedSum(histogram, (lo + hi) \div 2 + 1, hi)

\* The loop over t of otsu.  varBetween = wB * wF * (mB - mF) * (mB - mF)
\* with mB = sumB / wB and mF = (sum - sumB) / wF is the fraction
\* (sumB * wF - (sum - sumB) * wB)^2 / (wB * wF); varMax is kept as such a
\* fraction and varBetween > varMax is decided by cross-multiplication.
OtsuStart ==
  [t |-> 0, wB |-> 0, sumB |-> 0, varMax |-> [num |-> 0, den |-> 1],
   threshold |-> 0, broke |-> FALSE]

OtsuBody(s, histogram, totalPixels, sum) ==
  LET wB == s.wB + histogram[s.t]
      wF == totalPixels - wB
      sumB == s.sumB + s.t * histogram[s.t]
      d == sumB * wF - (sum - sumB) * wB
  IN IF wB = 0 THEN [s EXCEPT !.t = @ + 1, !.wB = wB]
     ELSE IF wF = 0 THEN [s EXCEPT !.wB = wB, !.broke = TRUE]
     ELSE IF d * d * s.varMax.den > s.varMax.num * (wB * wF)
          THEN [t |-> s.t + 1, wB |-> wB, sumB |-> sumB,
                varMax |-> [num |-> d * d, den |-> wB * wF],
                threshold |-> s.t, broke |-> FALSE]
          ELSE [s EXCEPT !.t = @ + 1, !.wB = wB, !.sumB = sumB]

\* The passes of the loop for t from s.t to hi, one after the other (the
\* range is halved to keep the evaluation shallow); after the break no
\* pass changes anything.
RECURSIVE OtsuLoop(_, _, _, _, _)
OtsuLoop(s, hi, histogram, totalPixels, sum) ==
  IF s.broke \/ s.t > hi THEN s
  ELSE IF s.t = hi THEN OtsuBody(s, histogram, totalPixels, sum)
  ELSE OtsuLoop(OtsuLoop(s, (s.t + hi) \div 2, histogram, totalPixels, sum),
                hi, histogram, totalPixels, sum)

OtsuThreshold(imageData) ==
  OtsuLoop(OtsuStart, HISTOGRAM_BINS - 1, Histogram(imageData),
           imageData.width * imageData.height,
           WeightedSum(Histogram(imageData), 0, HISTOGRAM_BINS - 1)).threshold

otsu(imageData) == simpleThreshold(imageData, OtsuThreshold(imageData))

\* adaptive: the integral image, filled in row-major order as the two for
\* loops of lines 277-289 do; the entry of (x, y) is at index
\* y * width + x of the array, which is index y * width + x + 1 here.
At(array, width, x, y) == array[y * width + x + 1]

RECURSIVE BuildIntegralImage(_, _)
BuildIntegralImage(imageData, integralImage) ==
  IF Len(integralImage) = imageData.width * imageData.height
  THEN integralImage
  ELSE LET width == imageData.width
           x == Len(integralImage) % width
           y == Len(integralImage) \div width
       IN BuildIntegralImage(imageData,
            Append(integralImage,
              At(imageData.data, width, x, y)
              + (IF x > 0 THEN At(integralImage, width, x - 1, y) ELSE 0)
              + (IF y > 0 THEN At(integralImage, width, x, y - 1) ELSE 0)
              - (IF x > 0 /\ y > 0
                 THEN At(integralImage, width, x - 1, y - 1) ELSE 0)))

\* The window of the pixel (x, y), and the count and the sum the code
\* computes for it.
Window(imageData, halfWindow, x, y) ==
  [x1 |-> Max(0, x - halfWindow),
   x2 |-> Min(imageData.width - 1, x + halfWindow),
   y1 |-> Max(0, y - halfWindow),
   y2 |-> Min(imageData.height - 1, y + halfWindow)]

WindowCount(w) == (w.x2 - w.x1) * (w.y2 - w.y1)

WindowSum(integralImage, width, w) ==
  At(integralImage, width, w.x2, w.y2)
  - (IF w.x1 > 0 THEN At(integralImage, width, w.x1 - 1, w.y2) ELSE 0)
  - (IF w.y1 > 0 THEN At(integralImage, width, w.x2, w.y1 - 1) ELSE 0)
  + (IF w.x1 > 0 /\ w.y1 > 0
     THEN At(integralImage, width, w.x1 - 1, w.y1 - 1) ELSE 0)

\* luminance > localMean * (1 - threshold) with localMean = sum / count
\* and threshold in hundredths.  A count of 0 makes localMean Infinity, or
\* NaN when sum is 0 too: the comparison is false.
AboveLocalMean(luminance, sum, count, threshold) ==
  /\ count > 0
  /\ luminance * count * 100 > sum * (100 - threshold)

AdaptiveValue(imageData, integralImage, halfWindow, threshold, x, y) ==
  IF AboveLocalMean(At(imageData.data, imageData.width, x, y),
                    WindowSum(integralImage, imageData.width,
                              Window(imageData, halfWindow, x, y)),
                    WindowCount(Window(imageData, halfWindow, x, y)),
                    threshold)
  THEN WHITE ELSE BLACK

AdaptiveOutput(imageData, integralImage, halfWindow, threshold) ==
  [imageData EXCEPT !.data =
     [i \in 1..Len(@) |->
        AdaptiveValue(imageData, integralImage, halfWindow, threshold,
                      (i - 1) % imageData.width, (i - 1) \div imageData.width)]]

adaptive(imageData, windowSize, threshold) ==
  AdaptiveOutput(imageData, BuildIntegralImage(imageData, <<>>),
                 windowSize \div 2, threshold)

\* The arguments advancedBinarization gives to adaptive and to
\* simpleThreshold (lines 418-423); the threshold of adaptive is in
\* hundredths.
AdaptiveMethods == {"adaptive-15", "adaptive-25", "adaptive-35"}
ThresholdMethods == {"threshold-85", "threshold-128", "threshold-170"}

WindowSizeOf(method) ==
  CASE method = "adaptive-15" -> 15
    [] method = "adaptive-25" -> 25
    [] method = "adaptive-35" -> 35

AdaptiveThresholdOf(method) ==
  CASE method = "adaptive-15" -> 15
    [] method = "adaptive-25" -> 10
    [] method = "adaptive-35" -> 20

ThresholdOf(method) ==
  CASE method = "threshold-85" -> 85
    [] method = "threshold-128" -> 128
    [] method = "threshold-170" -> 170

\* The images: a pixels of one level followed by pixels of a higher
\* level (all of one level when k is the number of pixels), and the
\* levels in turn.
Levels == <<0, 3, 4, 100, 200, 255>>

TwoLevels(width, height, a, b, k) ==
  GreyImage(width, height,
            [i \in 1..(width * height) |-> IF i <= k THEN a ELSE b])

InTurn(width, height) ==
  GreyImage(width, height,
            [i \in 1..(width * height) |-> Levels[((i - 1) % Len(Levels)) + 1]])

GreyImages ==
  { TwoLevels(width, height, Levels[i], Levels[j], k) :
      <<width, height, i, j, k>> \in
        { t \in (1..MaxSide) \X (1..MaxSide) \X (1..Len(Levels))
                 \X (1..Len(Levels)) \X (1..(MaxSide * MaxSide)) :
            t[3] < t[4] /\ t[5] <= t[1] * t[2] } }
  \cup { InTurn(width, height) : width \in 1..MaxSide, height \in 1..MaxSide }

\* The method has been applied and has returned output.
Binarized(output) ==
  [method |-> pixels.method, imageData |-> pixels.imageData, done |-> TRUE,
   output |-> output]

\* One pass of the for loop of advancedBinarization up to putImageData:
\* method.method on a copy of the pixels.
OtsuRuns ==
  /\ pixels.method = "otsu"
  /\ ~pixels.done
  /\ pixels' = Binarized(otsu(pixels.imageData))
  /\ UNCHANGED <<schedulerVars, engineVars, run, cacheVars, appVars>>

AdaptiveRuns ==
  /\ pixels.method \in AdaptiveMethods
  /\ ~pixels.done
  /\ pixels' = Binarized(adaptive(pixels.imageData,
                                   WindowSizeOf(pixels.method),
                                   AdaptiveThresholdOf(pixels.method)))
  /\ UNCHANGED <<schedulerVars, engineVars, run, cacheVars, appVars>>

SimpleThresholdRuns ==
  /\ pixels.method \in ThresholdMethods
  /\ ~pixels.done
  /\ pixels' = Binarized(simpleThreshold(pixels.imageData,
                                          ThresholdOf(pixels.method)))
  /\ UNCHANGED <<schedulerVars, engineVars, run, cacheVars, appVars>>

BinarizationInit ==
  /\ SchedulerInit
  /\ EngineIdle
  /\ run = [strategy |-> "none", done |-> FALSE]
  /\ CacheInit
  /\ AppInit
  /\ \E i \in 1..Len(binarizationMethods), imageData \in GreyImages :
        pixels = [method |-> binarizationMethods[i], imageData |-> imageData,
                  done |-> FALSE]

BinarizationNext ==
  \/ OtsuRuns
  \/ AdaptiveRuns
  \/ SimpleThresholdRuns

BinarizationSpec == BinarizationInit /\ [][BinarizationNext]_vars

\* ------------------------------------------- the QR generation cache
\* generateQRCode of qrGenerator.ts.  A call is identified by its cache
\* key (qrData and the settings); the keys are numbered in the order they
\* are first requested.  One call is made at a time.
MaxKeys == 102     \* number of different cache keys requested
CACHE_LIMIT == 100

\* The keys that are requested again after their first request.
Repeated == {1}

\* qrCodeCache.has(cacheKey)
Has(cache, cacheKey) == \E i \in 1..Len(cache) : cache[i] = cacheKey

\* The keys a call can carry: a repeated one, or the next new one.
Largest(cache) ==
  IF cache = <<>> THEN 0
  ELSE CHOOSE k \in { cache[i] : i \in 1..Len(cache) } :
         \A i \in 1..Len(cache) : cache[i] <= k
Requests ==
  Repeated \cup { k \in {Largest(qrCodeCache) + 1} : k <= MaxKeys }

Remove(s, k) == SelectSeq(s, LAMBDA e : e # k)
Touch(s, k) == Append(Remove(s, k), k)

\* qrCodeCache.set(cacheKey, qrDataUrl): a new key goes last, a key of
\* the map keeps its place.
MapSet(cache, cacheKey) ==
  IF Has(cache, cacheKey) THEN cache ELSE Append(cache, cacheKey)

\* Lines 69-72: beyond the limit, the first key of the map is deleted.
Trim(cache) == IF Len(cache) > CACHE_LIMIT THEN Tail(cache) ELSE cache

\* Lines 46-55: the call returns the cached URL, or starts
\* QRCode.toDataURL and waits for it.
GenerateCall(cacheKey) ==
  /\ pending = NoKey
  /\ IF Has(qrCodeCache, cacheKey)
     THEN /\ used' = Touch(used, cacheKey)
          /\ UNCHANGED pending
     ELSE /\ pending' = cacheKey
          /\ UNCHANGED used
  /\ UNCHANGED <<schedulerVars, engineVars, run, pixels, appVars, qrCodeCache>>

\* Lines 66-74: toDataURL has resolved.
GenerateSettles ==
  /\ pending # NoKey
  /\ qrCodeCache' = Trim(MapSet(qrCodeCache, pending))
  /\ used' = SelectSeq(Touch(used, pending),
                       LAMBDA k : Has(Trim(MapSet(qrCodeCache, pending)), k))
  /\ pending' = NoKey
  /\ UNCHANGED <<schedulerVars, engineVars, run, pixels, appVars>>

\* Lines 75-77: toDataURL has rejected, nothing is cached.
GenerateFails ==
  /\ pending # NoKey
  /\ pending' = NoKey
  /\ UNCHANGED <<schedulerVars, engineVars, run, pixels, appVars, qrCodeCache, used>>

CacheSpecInit ==
  /\ SchedulerInit
  /\ EngineIdle
  /\ OthersIdle

CacheNext ==
  \/ \E cacheKey \in Requests : GenerateCall(cacheKey)
  \/ GenerateSettles
  \/ GenerateFails

CacheSpec == CacheSpecInit /\ [][CacheNext]_vars

\* -------------------------------------------------- the App's timers
\* App.tsx keeps three timers in refs: the interval that updates the
\* elapsed time while a batch is processed, and the two timeouts that take
\* a 'copied' mark away again.  A ref is "null", holds a timer that is
\* still to fire ("live" for the interval, "pending" for a timeout), or
\* holds a timeout that has "fired".

MaxEntries == 2    \* number of entries of each list that can be copied
MaxElapsed == 3    \* seconds the elapsed-time display is followed

Entries == 1..MaxEntries

\* clearInterval / clearTimeout of a ref and ref.current = null (lines
\* 116-127); a ref that is null stays null.
Cleared(ref) == "null"

\* Math.round(totalTime / 1000) of the 'complete' handler, against the
\* Math.floor of the interval's callback.
RoundedElapsed == {elapsedTime, IF elapsedTime < MaxElapsed THEN elapsedTime + 1 ELSE elapsedTime}

\* handleFiles (lines 367-377), offered by the drop zone of the idle view.
handleFiles ==
  /\ status = "idle"
  /\ elapsedTime' = 0
  /\ timerRef' = "live"
  /\ status' = "processing"
  /\ UNCHANGED <<copiedTimeoutRef, generatedCopiedTimeoutRef, copiedInfo,
                 copiedGeneratedId>>
  /\ UNCHANGED <<schedulerVars, engineVars, run, pixels, cacheVars>>

\* The callback of the interval (lines 375-377).
IntervalFires ==
  /\ timerRef = "live"
  /\ elapsedTime < MaxElapsed
  /\ elapsedTime' = elapsedTime + 1
  /\ UNCHANGED <<status, timerRef, copiedTimeoutRef,
                 generatedCopiedTimeoutRef, copiedInfo, copiedGeneratedId>>
  /\ UNCHANGED <<schedulerVars, engineVars, run, pixels, cacheVars>>

\* handleWorkerMessage, case 'complete' (lines 179-199), for the batch
\* being processed.
OnComplete ==
  /\ status = "processing"
  /\ timerRef' = Cleared(timerRef)
  /\ copiedTimeoutRef' = Cleared(copiedTimeoutRef)
  /\ generatedCopiedTimeoutRef' = Cleared(generatedCopiedTimeoutRef)
  /\ elapsedTime' \in RoundedElapsed
  /\ status' = "results"
  /\ UNCHANGED <<copiedInfo, copiedGeneratedId>>
  /\ UNCHANGED <<schedulerVars, engineVars, run, pixels, cacheVars>>

\* resetState (lines 437-445), the "Scan More Files" button of the
\* results view.
resetState ==
  /\ status = "results"
  /\ timerRef' = Cleared(timerRef)
  /\ copiedTimeoutRef' = Cleared(copiedTimeoutRef)
  /\ generatedCopiedTimeoutRef' = Cleared(generatedCopiedTimeoutRef)
  /\ status' = "idle"
  /\ copiedInfo' = NoCopy
  /\ elapsedTime' = 0
  /\ UNCHANGED copiedGeneratedId
  /\ UNCHANGED <<schedulerVars, engineVars, run, pixels, cacheVars>>

\* handleCopy (lines 447-452), the copy button of a decoded code; the
\* decoded codes are listed by the results view only (line 500).
handleCopy(entry) ==
  /\ status = "results"
  /\ timerRef' = Cleared(timerRef)
  /\ generatedCopiedTimeoutRef' = Cleared(generatedCopiedTimeoutRef)
  /\ copiedInfo' = entry
  /\ copiedTimeoutRef' = "pending"
  /\ UNCHANGED <<status, copiedGeneratedId, elapsedTime>>
  /\ UNCHANGED <<schedulerVars, engineVars, run, pixels, cacheVars>>

\* handleCopyGeneratedQR (lines 476-481), the copy button of a generated
\* code; the generator tab is offered whatever the status (lines 797-811).
handleCopyGeneratedQR(id) ==
  /\ timerRef' = Cleared(timerRef)
  /\ copiedTimeoutRef' = Cleared(copiedTimeoutRef)
  /\ copiedGeneratedId' = id
  /\ generatedCopiedTimeoutRef' = "pending"
  /\ UNCHANGED <<status, copiedInfo, elapsedTime>>
  /\ UNCHANGED <<schedulerVars, engineVars, run, pixels, cacheVars>>

\* The callback of the timeout of line 451.
CopiedResetFires ==
  /\ copiedTimeoutRef = "pending"
  /\ copiedInfo' = NoCopy
  /\ copiedTimeoutRef' = "fired"
  /\ UNCHANGED <<status, timerRef, generatedCopiedTimeoutRef,
                 copiedGeneratedId, elapsedTime>>
  /\ UNCHANGED <<schedulerVars, engineVars, run, pixels, cacheVars>>

\* The callback of the timeout of line 480.
GeneratedCopiedResetFires ==
  /\ generatedCopiedTimeoutRef = "pending"
  /\ copiedGeneratedId' = NoCopy
  /\ generatedCopiedTimeoutRef' = "fired"
  /\ UNCHANGED <<status, timerRef, copiedTimeoutRef, copiedInfo,
                 elapsedTime>>
  /\ UNCHANGED <<schedulerVars, engineVars, run, pixels, cacheVars>>

AppNext ==
  \/ handleFiles
  \/ IntervalFires
  \/ OnComplete
  \/ resetState
  \/ \E entry \in Entries : handleCopy(entry)
  \/ \E id \in Entries : handleCopyGeneratedQR(id)
  \/ CopiedResetFires
  \/ GeneratedCopiedResetFires

\* The App once mounted, the worker untouched.
AppSpecInit == SchedulerInit /\ EngineIdle /\ OthersIdle

\* The worker is left alone; a timeout that is pending fires.
AppSpec ==
  /\ AppSpecInit
  /\ [][AppNext]_vars
  /\ WF_vars(CopiedResetFires)
  /\ WF_vars(GeneratedCopiedResetFires)

\* ------------------------------------------------------------- the queue
IMAGE_PRIORITY == 2
PAGE_PRIORITY == 3

\* Array.prototype.sort with the comparator (a, b) => b.priority - a.priority
\* is a stable sort: x is placed behind every element it does not precede.
RECURSIVE InsertByPriorityUnstable(_, _)
InsertByPriorityUnstable(s, x) ==
  IF s = <<>> THEN <<x>>
  ELSE IF Head(s).priority - x.priority <= 0
       THEN <<x>> \o s
       ELSE <<Head(s)>> \o InsertByPriorityUnstable(Tail(s), x)

RECURSIVE InsertByPriority(_, _)
InsertByPriority(s, x) ==
  IF s = <<>> THEN <<x>>
  ELSE IF Head(s).priority - x.priority < 0
       THEN <<x>> \o s
       ELSE <<Head(s)>> \o InsertByPriority(Tail(s), x)

SortByPriorityOmitted(q) == q

RECURSIVE SortByPriority(_)
SortByPriority(q) ==
  IF q = <<>> THEN <<>>
  ELSE InsertByPriority(SortByPriority(SubSeq(q, 1, Len(q) - 1)), q[Len(q)])

ImageItem(file, ts) ==
  [type |-> "image", file |-> file, imageData |-> "none", pageNum |-> 0,
   priority |-> IMAGE_PRIORITY, timestamp |-> ts]

ImageDataItem(imageData, pageNum, ts) ==
  [type |-> "imageData", file |-> "none", imageData |-> imageData,
   pageNum |-> pageNum, priority |-> PAGE_PRIORITY, timestamp |-> ts]

\* ------------------------------------------------------------ event loop
\* current holds the items of the processQueue calls that are past their
\* shift and not yet at their end.  A call that popped an imageData item has
\* no real suspension point: its awaits resolve in microtasks, which run
\* before the next message or timer.  A call that popped an image item is
\* suspended at createImageBitmap and lets other macrotasks in.
MicrotasksPending ==
  \E i \in 1..Len(current) : current[i].type = "imageData"

\* The worker after its script has run: nothing queued, no detection
\* under way.
Init == SchedulerInit /\ EngineIdle /\ OthersIdle

\* The early return of processQueue (line 672).
ReturnsEarlyIgnoringFlag(mq) == Len(mq) = 0
ReturnsEarly(mq) == isProcessing \/ Len(mq) = 0

\* messageQueue.sort(...) followed by messageQueue.shift(): the item taken
\* and the queue left behind.
ShiftWithoutRemoving(mq) ==
  [item |-> Head(SortByPriority(mq)), rest |-> SortByPriority(mq)]
Shift(mq) ==
  [item |-> Head(SortByPriority(mq)), rest |-> Tail(SortByPriority(mq))]

\* processQueue up to its first await, called with the queue as the caller
\* left it: guard, isProcessing = true, sort, shift.
processQueueStart(mq) ==
  IF ReturnsEarly(mq)
  THEN /\ messageQueue' = mq
       /\ UNCHANGED <<isProcessing, current, pops>>
  ELSE /\ isProcessing' = TRUE
       /\ messageQueue' = Shift(mq).rest
       /\ current' = Append(current, Shift(mq).item)
       /\ pops' = Append(pops, [timestamp |-> Shift(mq).item.timestamp,
                                type |-> Shift(mq).item.type])

\* What the try block of processQueue posts for the item once its await
\* has resumed, when nothing raises.
ResultMessages(item, processed) ==
  IF item.type = "image"
  THEN << [type |-> "result", payload |-> processFile(item.file)] >>
  ELSE LET qrs == findAllQrCodesInImageData(item.imageData, item.pageNum) IN
       (IF Len(qrs) > 0
        THEN << [type |-> "result",
                 payload |-> [fileName |-> <<"PDF Page", item.pageNum>>,
                              status |-> "success", qrs |-> qrs,
                              pageNumber |-> item.pageNum]] >>
        ELSE <<>>)
       \o << [type |-> "progress",
              payload |-> [processed |-> processed,
                           total |-> totalExpectedPages,
                           currentPage |-> item.pageNum]] >>

\* What the catch block of processQueue posts.
ErrorMessage(item) ==
  [type |-> "error",
   payload |-> [message |-> "Processing error", item |-> item.type]]

\* Whether awaiting the item raises inside the try block.  processFile
\* catches everything itself; findAllQrCodesInImageData raises for a buffer
\* it cannot draw.
Raises(item) == item.type = "imageData" /\ Throws(item.imageData)

\* The try/catch of processQueue (lines 679-718): the messages posted, the
\* new value of processedPages, and whether an exception leaves the
\* statement (the catch clause catches every exception).
TryWithoutCatch(item) ==
  IF Raises(item)
  THEN [messages |-> <<>>, processed |-> processedPages, escapes |-> TRUE]
  ELSE LET processed == IF item.type = "imageData"
                        THEN processedPages + 1 ELSE processedPages
       IN [messages |-> ResultMessages(item, processed),
           processed |-> processed, escapes |-> FALSE]

TryCatch(item) ==
  IF Raises(item)
  THEN [messages |-> <<ErrorMessage(item)>>, processed |-> processedPages,
        escapes |-> FALSE]
  ELSE LET processed == IF item.type = "imageData"
                        THEN processedPages + 1 ELSE processedPages
       IN [messages |-> ResultMessages(item, processed),
           processed |-> processed, escapes |-> FALSE]

CompleteMessage(n) == [type |-> "complete", payload |-> [totalProcessed |-> n]]

\* The branches at the end of processQueue (lines 722-727): the if, and
\* the else-if.
SchedulesNextWithoutTimer == FALSE
SchedulesNext == Len(messageQueue) > 0

PostsCompleteWithoutElse == processingComplete
PostsComplete == ~SchedulesNext /\ processingComplete

\* The processQueue call holding current[i], from the resumption of its
\* await to its end.  An exception that left the try statement would end
\* the call there, before isProcessing = false.
Resume(i) ==
  LET item == current[i]
      r == TryCatch(item)
  IN /\ current' = SubSeq(current, 1, i - 1) \o SubSeq(current, i + 1, Len(current))
     /\ processedPages' = r.processed
     /\ IF r.escapes
        THEN /\ posted' = r.messages
             /\ UNCHANGED <<isProcessing, timers, completes>>
        ELSE /\ isProcessing' = FALSE
             /\ timers' = IF SchedulesNext THEN timers + 1 ELSE timers
             /\ posted' = r.messages
                          \o (IF PostsComplete
                              THEN <<CompleteMessage(r.processed)>> ELSE <<>>)
             /\ completes' = IF PostsComplete
                             THEN completes + 1 ELSE completes
     /\ UNCHANGED <<processingComplete, messageQueue, totalExpectedPages,
                    submitted, signals, lateSubmit, pops, engineVars, otherVars>>

processQueueFinish == \E i \in 1..Len(current) : Resume(i)

\* The callback of setTimeout(processQueue, 0).
TimerFires ==
  /\ ~MicrotasksPending
  /\ timers > 0
  /\ timers' = timers - 1
  /\ processQueueStart(messageQueue)
  /\ posted' = <<>>
  /\ UNCHANGED <<processingComplete, processedPages, totalExpectedPages,
                 submitted, signals, lateSubmit, completes, engineVars, otherVars>>

\* self.onmessage, case 'allFilesSent'
OnAllFilesSent ==
  /\ ~MicrotasksPending
  /\ signals < MaxSignals
  /\ signals' = signals + 1
  /\ processingComplete' = TRUE
  /\ posted' = IF ~isProcessing /\ Len(messageQueue) = 0
               THEN <<CompleteMessage(processedPages)>>
               ELSE <<>>
  /\ completes' = IF ~isProcessing /\ Len(messageQueue) = 0
                  THEN completes + 1 ELSE completes
  /\ UNCHANGED <<messageQueue, isProcessing, processedPages,
                 totalExpectedPages, current, timers, submitted,
                 lateSubmit, pops, engineVars, otherVars>>

\* self.onmessage, case 'setPdfPageCount'
OnSetPdfPageCount(pageCount) ==
  /\ ~MicrotasksPending
  /\ totalExpectedPages' = pageCount
  /\ processedPages' = 0
  /\ posted' = <<>>
  /\ UNCHANGED <<processingComplete, messageQueue, isProcessing, current,
                 timers, submitted, signals, lateSubmit, completes, pops, engineVars, otherVars>>

\* self.onmessage, case 'image'.  The timestamp (Date.now()) of an item is
\* modelled by its arrival number.
OnImage(file) ==
  LET msg == [type |-> "image", file |-> file] IN
  /\ ~MicrotasksPending
  /\ Cardinality(submitted) < MaxTasks
  /\ msg \notin submitted
  /\ submitted' = submitted \cup {msg}
  /\ lateSubmit' = (lateSubmit \/ signals > 0)
  /\ processQueueStart(Append(messageQueue,
                              ImageItem(file, Cardinality(submitted) + 1)))
  /\ posted' = <<>>
  /\ UNCHANGED <<processingComplete, processedPages, totalExpectedPages,
                 timers, signals, completes, engineVars, otherVars>>

\* self.onmessage, case 'imageData'.  The parentFileName of the message is
\* not copied into the queue item.
OnImageData(data) ==
  LET msg == [type |-> "imageData", pageNum |-> data.pageNum,
              parentFileName |-> data.parentFileName] IN
  /\ ~MicrotasksPending
  /\ Cardinality(submitted) < MaxTasks
  /\ msg \notin submitted
  /\ submitted' = submitted \cup {msg}
  /\ lateSubmit' = (lateSubmit \/ signals > 0)
  /\ processQueueStart(Append(messageQueue,
                              ImageDataItem(data.imageData, data.pageNum,
                                            Cardinality(submitted) + 1)))
  /\ posted' = <<>>
  /\ UNCHANGED <<processingComplete, processedPages, totalExpectedPages,
                 timers, signals, completes, engineVars, otherVars>>

Next ==
  \/ \E file \in ImageFiles : OnImage(file)
  \/ \E data \in PageMessages : OnImageData(data)
  \/ \E f \in PdfFiles : OnSetPdfPageCount(NumPages(f))
  \/ OnAllFilesSent
  \/ TimerFires
  \/ processQueueFinish

Spec == Init /\ [][Next]_vars

\* Timers fire, createImageBitmap settles and microtasks run.
FairSpec == Spec /\ WF_vars(TimerFires) /\ WF_vars(processQueueFinish)

\* The producer of App.tsx (handleFiles, processEnhancedPDF) takes the files
\* one after the other and posts the setPdfPageCount of a document before
\* the pages of that document: when a page arrives, the last count
\* declared is the one of its document.
OnImageDataDeclared(data) ==
  /\ totalExpectedPages = NumPages(data.parentFileName)
  /\ OnImageData(data)

DeclaredNext ==
  \/ \E file \in ImageFiles : OnImage(file)
  \/ \E data \in PageMessages : OnImageDataDeclared(data)
  \/ \E f \in PdfFiles : OnSetPdfPageCount(NumPages(f))
  \/ OnAllFilesSent
  \/ TimerFires
  \/ processQueueFinish

DeclaredSpec == Init /\ [][DeclaredNext]_vars

\* The pages and tasks the first batch left counted.
FirstBatchCounts == 0..1

\* The worker when handleFiles is called for a second batch: the first
\* batch's allFilesSent has been received, its tasks are done and its
\* 'complete' has been posted.  App.tsx keeps the worker (workerRef) and
\* sends it nothing between the batches, so the flag and the counter are
\* as the first batch left them.  submitted, signals, lateSubmit, completes
\* and pops count from the start of the second batch.
BatchInit ==
  /\ processingComplete = TRUE
  /\ messageQueue = <<>>
  /\ isProcessing = FALSE
  /\ processedPages \in FirstBatchCounts
  /\ totalExpectedPages = 0
  /\ current = <<>>
  /\ timers = 0
  /\ posted = <<>>
  /\ submitted = {}
  /\ signals = 0
  /\ lateSubmit = FALSE
  /\ completes = 0
  /\ pops = <<>>
  /\ EngineIdle
  /\ OthersIdle

\* The second batch: the same handlers, from the state the first left.
BatchSpec == BatchInit /\ [][Next]_vars

TypeOK ==
  /\ processingComplete \in BOOLEAN
  /\ isProcessing \in BOOLEAN
  /\ processedPages \in 0..MaxTasks
  /\ timers \in 0..MaxTasks
  /\ Len(messageQueue) <= MaxTasks
  /\ Len(posted) <= 3
  /\ signals \in 0..MaxSignals
  /\ lateSubmit \in BOOLEAN

\* -------------------------------------------------------- the main thread
\* The entry processEnhancedPDF adds to results for a document before it
\* sends the pages.
InitialPdfEntry(f) == [fileName |-> f, status |-> "no_qr_found", qrs |-> <<>>]

\* handleWorkerMessage, case 'result': the new value of results.
handleResult(prev, payload) ==
  LET isPage == /\ "pageNumber" \in DOMAIN payload
                /\ "parentFileName" \in DOMAIN payload
      idx == { i \in 1..Len(prev) :
                 isPage /\ prev[i].fileName = payload.parentFileName }
  IN IF idx # {}
     THEN LET e == CHOOSE i \in idx : \A j \in idx : i <= j IN
          [prev EXCEPT ![e] =
             [prev[e] EXCEPT !.qrs = prev[e].qrs \o payload.qrs,
                             !.status = IF Len(payload.qrs) > 0
                                        THEN "success" ELSE prev[e].status]]
     ELSE Append(prev, payload)

\* ------------------------------------------------------------ properties
QueuedItems == { messageQueue[i] : i \in 1..Len(messageQueue) }
Types(msgs) == { msgs[i].type : i \in 1..Len(msgs) }
Count(msgs, t) == Cardinality({ i \in 1..Len(msgs) : msgs[i].type = t })
Idle == current = <<>> /\ ~isProcessing

\* A step in which processQueue shifts an item off the queue, and the item.
PopStep == Len(pops') = Len(pops) + 1
PoppedItem == current'[Len(current')]

\* A step in which the processQueue call holding an item reaches its end.
FinishStep == Len(current') < Len(current)

\* The producer signalled once and submitted nothing afterwards.
OneBatch == signals <= 1 /\ ~lateSubmit

\* C1: with one allFilesSent and no task submitted after it, 'complete' is
\* posted exactly once: at most once, eventually once the signal has been
\* received, and only in a step after which the signal has been received,
\* the queue is empty and no task is being processed.
C1_CompleteExactlyOnce ==
  /\ [](OneBatch => completes <= 1)
  /\ [][completes' # completes =>
          /\ completes' = completes + 1
          /\ processingComplete' /\ signals' >= 1
          /\ messageQueue' = <<>>
          /\ current' = <<>> /\ ~isProcessing']_vars
  /\ [](OneBatch /\ signals = 1 => <>(completes = 1))

\* The signal arrived while the queue was draining and 'complete' was
\* posted by the processQueue call that emptied the queue.
C1_Witness ==
  /\ OneBatch /\ signals = 1 /\ completes = 1
  /\ Len(pops) = MaxTasks /\ Idle
  /\ Count(posted, "complete") = 1 /\ Len(posted) > 1

\* C2 as stated: of one image task and one page task, enqueued in either
\* order, the page task is the first to be popped.
C2_FragmentAlwaysFirst ==
  (Len(pops) = 2 /\ Cardinality(submitted) = 2
     /\ {pops[1].type, pops[2].type} = {"image", "imageData"})
  => pops[1].type = "imageData"

\* C2 amended: the page task is popped before the image task whenever it
\* was enqueued before it or both are in the queue when processQueue pops;
\* an image task can only be popped ahead of a page task that arrived
\* after it.
C2_FragmentFirstWhenQueued ==
  /\ [](\A i, j \in 1..Len(pops) :
          (i < j /\ pops[i].type = "image" /\ pops[j].type = "imageData")
          => pops[i].timestamp < pops[j].timestamp)
  /\ [][(PopStep /\ PoppedItem.type = "image")
          => \A q \in QueuedItems' : q.type # "imageData"]_vars

\* A page task that arrived after a queued image task was popped before it.
C2_Witness ==
  \E i, j \in 1..Len(pops) :
    /\ i < j
    /\ pops[i].type = "imageData" /\ pops[j].type = "image"
    /\ pops[i].timestamp > pops[j].timestamp

\* C3: the popped item has the highest priority of the items queued at
\* that moment, and is the earliest arrival among those of its priority.
C3_PopsHighestPriorityFifo ==
  [][PopStep =>
       \A q \in QueuedItems' :
          \/ q.priority < PoppedItem.priority
          \/ (q.priority = PoppedItem.priority
              /\ q.timestamp > PoppedItem.timestamp)]_vars

\* An item was popped while a later arrival of the same priority was
\* queued.
C3_Witness ==
  /\ Len(current) = 1
  /\ \E q \in QueuedItems :
        q.priority = current[1].priority /\ q.timestamp > current[1].timestamp

\* C4: at most one task is being processed at any moment.
C4_AtMostOneProcessing ==
  /\ Len(current) <= 1
  /\ (current # <<>> => isProcessing)

\* A task was popped by the processQueue call of an arriving message
\* while a processQueue timer was pending and another task stays queued:
\* the timer will fire while the task is being processed.
C4_Witness ==
  /\ Len(current) = 1 /\ isProcessing
  /\ messageQueue # <<>> /\ timers > 0

\* C5: an exception raised while processing a task is caught and posted as
\* an error event, the scheduler leaves the processing state and schedules
\* the next task; the remaining tasks are all processed and, once the
\* producer has signalled, 'complete' is posted.
C5_FailureDoesNotBlock ==
  /\ [][(FinishStep /\ Len(current) = 1 /\ Raises(current[1])) =>
          /\ Count(posted', "error") = 1
          /\ Count(posted', "result") = 0
          /\ ~isProcessing'
          /\ (messageQueue # <<>> => timers' = timers + 1)]_vars
  /\ []("error" \in Types(posted) =>
          <>(/\ messageQueue = <<>> /\ Idle
             /\ (processingComplete => completes >= 1)))

\* A task has just failed while other tasks are queued.
C5_Witness ==
  /\ "error" \in Types(posted)
  /\ messageQueue # <<>> /\ Idle /\ timers > 0

\* C6 as stated: every task that is processed posts exactly one result,
\* with status success, no_qr_found or error (the 'error' event), and a
\* page task posts one progress event as well.
C6_OneResultPerTask ==
  [][(FinishStep /\ Len(current) = 1) =>
       /\ Count(posted', "result") + Count(posted', "error") = 1
       /\ \A i \in 1..Len(posted') :
             posted'[i].type = "result"
             => posted'[i].payload.status \in {"success", "no_qr_found"}
       /\ (current[1].type = "imageData"
             => Count(posted', "progress") = 1)]_vars

\* One document, declared before its pages and not again once a page has
\* been processed, and nothing else submitted.
SingleFile(f) ==
  /\ totalExpectedPages = NumPages(f)
  /\ OneBatch
  /\ \A m \in submitted : m.type = "imageData" /\ m.parentFileName = f
  /\ processedPages = Len(pops) - Len(current)

AllPagesSubmitted(f) == Cardinality(submitted) = NumPages(f)

\* C7 as stated: for a single document of N pages followed by the signal,
\* every page posts a result (success with its payloads when it holds a
\* code, no_qr_found when it is blank), and 'complete' reports N.
C7_ResultPerPageThenAllDone ==
  [][\A f \in PdfFiles \ {"b.pdf"} :
       /\ (SingleFile(f)' /\ FinishStep /\ Len(current) = 1) =>
             \E i \in 1..Len(posted') :
               /\ posted'[i].type = "result"
               /\ "pageNumber" \in DOMAIN posted'[i].payload
               /\ posted'[i].payload.pageNumber = current[1].pageNum
               /\ posted'[i].payload.status =
                     (IF Payloads(current[1].imageData) # <<>>
                      THEN "success" ELSE "no_qr_found")
               /\ [k \in 1..Len(posted'[i].payload.qrs) |->
                     posted'[i].payload.qrs[k].data]
                   = Payloads(current[1].imageData)
       /\ (SingleFile(f)' /\ AllPagesSubmitted(f)' /\ completes' # completes) =>
             /\ posted'[Len(posted')].type = "complete"
             /\ posted'[Len(posted')].payload.totalProcessed = NumPages(f)]_vars

\* The document a page item was rendered from.
ParentOf(item) ==
  CHOOSE f \in PdfFiles :
    /\ PageImage(f, item.pageNum) = item.imageData
    /\ [type |-> "imageData", pageNum |-> item.pageNum,
        parentFileName |-> f] \in submitted

\* C8 as stated: the result posted for a page task carries the file and
\* the page number of the task, and the main thread merges it into the
\* entry of that file.
C8_ResultCarriesCorrelationKey ==
  [][(FinishStep /\ Len(current) = 1 /\ current[1].type = "imageData") =>
       \A i \in 1..Len(posted') :
         posted'[i].type = "result" =>
           /\ "pageNumber" \in DOMAIN posted'[i].payload
           /\ posted'[i].payload.pageNumber = current[1].pageNum
           /\ "parentFileName" \in DOMAIN posted'[i].payload
           /\ posted'[i].payload.parentFileName = ParentOf(current[1])
           /\ LET f == ParentOf(current[1])
                  res == handleResult(<<InitialPdfEntry(f)>>,
                                      posted'[i].payload)
              IN /\ Len(res) = 1
                 /\ res[1].fileName = f
                 /\ res[1].qrs = posted'[i].payload.qrs]_vars

InQueue(k) == \E q \in QueuedItems : q.timestamp = k
WasPopped(k) == \E i \in 1..Len(pops) : pops[i].timestamp = k

Arrived(k) == k <= Cardinality(submitted)

\* C9: every task that is queued is eventually popped, whatever arrives
\* after it: no task stays in the queue, from some point on every task
\* that has arrived has been popped.
C9_NoStarvation ==
  \A k \in 1..MaxTasks :
    <>[](Arrived(k) => (WasPopped(k) /\ ~InQueue(k)))

\* Every task has been popped, and one of them was overtaken by a task
\* that arrived after it.
C9_Witness ==
  /\ Len(pops) = MaxTasks /\ messageQueue = <<>> /\ Idle
  /\ \E i, j \in 1..Len(pops) :
        i < j /\ pops[i].timestamp > pops[j].timestamp

\* C10: a task is popped at most once; every submitted task is either
\* still queued or has been popped (none is dropped); a task is popped only
\* when no other task is in flight; and a popped task leaves the
\* processing state only at the end of its processQueue call, which posts
\* its outcome.
C10_PoppedOnceRunsToEnd ==
  /\ [](\A i, j \in 1..Len(pops) :
          pops[i].timestamp = pops[j].timestamp => i = j)
  /\ [](\A i, j \in 1..Len(messageQueue) :
          messageQueue[i].timestamp = messageQueue[j].timestamp => i = j)
  /\ [](\A k \in 1..Cardinality(submitted) : InQueue(k) # WasPopped(k))
  /\ [](\A i \in 1..Len(current) : WasPopped(current[i].timestamp))
  /\ [][PopStep => current = <<>>]_vars
  /\ [][FinishStep => (posted' # <<>> /\ current' = <<>>)]_vars

\* The last of the submitted tasks is being processed after the others
\* ran to their end.
C10_Witness ==
  /\ Len(pops) = MaxTasks /\ Len(current) = 1 /\ messageQueue = <<>>
  /\ current[1].timestamp = pops[Len(pops)].timestamp

\* ------------------------------------------- properties of the detection
\* The payloads of a sequence of codes, as a sequence and as a set.
DataOf(qrs) == [i \in 1..Len(qrs) |-> qrs[i].data]
DataSet(qrs) == { qrs[i].data : i \in 1..Len(qrs) }
NoDuplicates(s) == \A i, j \in 1..Len(s) : s[i] = s[j] => i = j

\* The strategies of the current call whose promise is fulfilled.
Completed == { i \in 1..Len(strategies) : strategies[i].status = "fulfilled" }

\* The call of findAllQrCodesInImageData has returned after calling its
\* strategies, and what it returned.
Merged == pc = "done" /\ Len(strategies) = Len(Strategies)
FinalQRs == returned[Len(returned)]

\* C11: what findAllQrCodesInImageData returns holds exactly the payloads
\* returned by the strategies that completed, each of them once, tagged
\* with the page number of the call.
C11_MergeIsUnion ==
  Merged =>
    /\ DataSet(FinalQRs) = UNION { DataSet(strategies[i].value.qrs) : i \in Completed }
    /\ NoDuplicates(DataOf(FinalQRs))
    /\ \A i \in 1..Len(FinalQRs) : FinalQRs[i].page = DEFAULT_PAGE_NUM

\* Two strategies completed with different payload sets that have a
\* payload in common, and one of them returned a payload twice.
C11_Witness ==
  /\ Merged
  /\ \E i, j \in Completed :
        /\ DataSet(strategies[i].value.qrs) # DataSet(strategies[j].value.qrs)
        /\ DataSet(strategies[i].value.qrs) \cap DataSet(strategies[j].value.qrs) # {}
  /\ \E i \in Completed : ~NoDuplicates(DataOf(strategies[i].value.qrs))

\* The strategies that throw in this run.
Throwing == { i \in 1..Len(Strategies) : Strategies[i] \in failing }

\* C12: whichever strategies throw, every strategy is called, the ones that
\* do not throw complete, the await does not raise, and the call returns
\* the union of the payloads of the strategies that did not throw (nothing
\* when all four throw).
C12_ThrowingStrategiesExcluded ==
  /\ (pc \in {"await", "done"} /\ "getContext" \notin failing) =>
        /\ Len(strategies) = Len(Strategies)
        /\ \A i \in 1..Len(strategies) :
              strategies[i].status =
                 (IF i \in Throwing THEN "rejected" ELSE "fulfilled")
        /\ ~Settle(strategies).threw
  /\ Merged =>
        /\ DataSet(FinalQRs) =
             UNION { DataSet(strategies[i].value.qrs) :
                       i \in (1..Len(Strategies)) \ Throwing }
        /\ (Throwing = 1..Len(Strategies) => FinalQRs = <<>>)

\* Two strategies threw, one of them before a strategy that completed,
\* and the call returned the payloads of the others.
C12_Witness ==
  /\ Merged
  /\ Cardinality(Throwing) = 2 /\ 1 \in Throwing
  /\ FinalQRs # <<>>

\* C13 as stated: for a buffer with a dimension below 50 pixels no
\* strategy is called and the call returns no code.
C13_SmallBufferShortCircuits ==
  (\/ surfaces.imageData.width < MIN_SCALED_DIMENSION
   \/ surfaces.imageData.height < MIN_SCALED_DIMENSION)
  => /\ strategies = <<>>
     /\ (pc = "done" => FinalQRs = <<>>)

\* The buffer of a task cannot be read: the file of an image task does
\* not decode, or the buffer of a page task cannot be drawn.
Unreadable(item) ==
  \/ item.type = "image" /\ ~Decodes(item.file)
  \/ item.type = "imageData" /\ Throws(item.imageData)

\* C14 as stated: a task whose buffer cannot be read ends with an error
\* (an 'error' event or a result of status error), and with no result of
\* status success or no_qr_found.
C14_UnreadableBufferFails ==
  [][(FinishStep /\ Len(current) = 1 /\ Unreadable(current[1])) =>
       /\ \E i \in 1..Len(posted') :
             \/ posted'[i].type = "error"
             \/ (posted'[i].type = "result"
                 /\ posted'[i].payload.status = "error")
       /\ \A i \in 1..Len(posted') :
             posted'[i].type = "result"
             => posted'[i].payload.status \notin {"success", "no_qr_found"}]_vars

\* C15: the calls of findAllQrCodesInImageData on one buffer return the
\* same payload set, and no step of a call changes the caller's buffer:
\* what the strategies draw and paint lands on the canvas of the call.
C15_DetectIsRepeatable ==
  /\ [](\A i, j \in 1..Len(returned) :
          DataSet(returned[i]) = DataSet(returned[j]))
  /\ [][surfaces'.imageData = surfaces.imageData]_vars

\* The buffer was decoded twice, codes were found, and the canvas of the
\* second call has been painted over.
C15_Witness ==
  /\ Len(returned) = MaxCalls /\ pc = "done"
  /\ returned[1] # <<>>
  /\ Len(surfaces.canvas.marks) < Len(surfaces.imageData.marks)

\* C16 as stated: the progress event of a page task reports as total the
\* number of pages declared for the document of that page.
C16_ProgressTotalOfOwnFile ==
  [][(FinishStep /\ Len(current) = 1 /\ current[1].type = "imageData") =>
       \A i \in 1..Len(posted') :
         posted'[i].type = "progress"
         => posted'[i].payload.total = NumPages(ParentOf(current[1]))]_vars

\* A step in which findAllQrCodesInImageData calls its next strategy.
CallStep == pc = "strategies" /\ Len(strategies') = Len(strategies) + 1

\* C17 as stated: the pixels a strategy reads are those of the source
\* buffer, and a strategy that completes returns what it returns when run
\* alone on the source buffer.
C17_StrategiesIsolated ==
  [][CallStep =>
       /\ surfaces.canvas = surfaces.imageData
       /\ (strategies'[Len(strategies')].status = "fulfilled" =>
             strategies'[Len(strategies')].value =
               RunStrategy(Strategies[Len(strategies')],
                           surfaces.imageData).result)]_vars

\* The symbols of a surface without the one at index loc.
Without(marks, loc) ==
  [i \in 1..(Len(marks) - 1) |-> IF i < loc THEN marks[i] ELSE marks[i + 1]]

\* C18: scanAndClearLoop calls the decoder at most maxAttempts times and
\* ends; a pass that finds a code appends its payload and leaves the
\* surface without that symbol for the next pass, a pass that finds none
\* changes nothing and is the last one; at most maxAttempts payloads are
\* returned.
C18_ScanAndClearBounded ==
  /\ [](scan.attempts + (IF scan.broke THEN 1 ELSE 0) <= maxAttempts)
  /\ [](Len(scan.foundCodes) = scan.attempts /\ Len(scan.foundCodes) <= maxAttempts)
  /\ [][scan' # scan =>
          LET code == jsQR(scan.context) IN
          IF code.found
          THEN /\ scan'.foundCodes = Append(scan.foundCodes, code.data)
               /\ scan'.context.marks = Without(scan.context.marks, code.location)
               /\ scan'.attempts = scan.attempts + 1
          ELSE /\ scan'.broke
               /\ scan'.foundCodes = scan.foundCodes
               /\ scan'.context = scan.context]_vars
  /\ [][scan.broke => scan' = scan]_vars
  /\ <>[](~ScanContinues(scan))

\* The loop ended at the cap with a code still on the surface.
C18_Witness ==
  /\ scan.attempts = maxAttempts /\ ~scan.broke
  /\ jsQR(scan.context).found

\* C19 as stated: neither the codes a strategy returns nor the codes the
\* call returns hold a payload twice.
C19_NoDuplicatePayloads ==
  /\ \A i \in Completed : NoDuplicates(DataOf(strategies[i].value.qrs))
  /\ (Merged => NoDuplicates(DataOf(FinalQRs)))

\* C20 as stated: a step taken while a task is being processed, other than
\* the end of that task, leaves the queue and the two page counters as
\* they are.
C20_TouchedOnlyAtTaskBoundaries ==
  [][(current # <<>> /\ current' = current) =>
       /\ messageQueue' = messageQueue
       /\ processedPages' = processedPages
       /\ totalExpectedPages' = totalExpectedPages]_vars

\* ------------------------------------------------ the strategies, alone
\* The scales multiScale does not skip on canvas c, what scanAndClearLoop
\* finds at the i-th scale, and the scales at which it finds something.
Tried(c) ==
  { i \in 1..Len(scales) :
      /\ FloorScale(c.width, scales[i]) >= MIN_SCALED_DIMENSION
      /\ FloorScale(c.height, scales[i]) >= MIN_SCALED_DIMENSION }
ScaleScan(c, i) == scanAndClearLoop(DrawScaled(c, scales[i])).foundCodes
ScaleHits(c) == { i \in Tried(c) : ScaleScan(c, i) # <<>> }
First(S) == CHOOSE i \in S : \A j \in S : i <= j

\* C21: multiScale returns what scanAndClearLoop finds at the first scale,
\* in the order of scales, that is not skipped (both scaled dimensions at
\* least 50) and yields a payload, and nothing if there is no such scale;
\* what later scales would find is not in the result.
C21_MultiScaleFirstHit ==
  (run.strategy = "multi-scale" /\ run.done) =>
     /\ run.result.strategy = "multi-scale"
     /\ DataOf(run.result.qrs) =
          IF ScaleHits(run.canvas) = {} THEN <<>>
          ELSE ScaleScan(run.canvas, First(ScaleHits(run.canvas)))

\* multiScale skipped a scale, found nothing at the first scale and
\* returned what a later scale yielded.
C21_Witness ==
  /\ run.strategy = "multi-scale" /\ run.done
  /\ run.result.qrs # <<>>
  /\ Tried(run.canvas) # 1..Len(scales)
  /\ First(ScaleHits(run.canvas)) > 1

\* The stages of the two strategies that work through a list of
\* transforms, what scanAndClearLoop finds and leaves after the i-th stage
\* applied to canvas c, and the stages that yield a payload.
Pipelines == {"enhanced-preprocessing", "advanced-binarization"}
StagesOf(strategy) ==
  IF strategy = "enhanced-preprocessing" THEN preprocessingSteps
  ELSE binarizationMethods
StageScan(c, steps, i) == scanAndClearLoop(Process(steps[i], c))
StageHits(c, steps) ==
  { i \in 1..Len(steps) : StageScan(c, steps, i).foundCodes # <<>> }

\* C22: enhancedPreprocessing and advancedBinarization return what
\* scanAndClearLoop finds after the first stage, in the order of the list,
\* that yields a payload when applied to the pixels the strategy read at
\* its start, and nothing if no stage does; the canvas is left as that
\* stage's scan left it (as the last stage's, if none hit): one transform
\* of the starting pixels, never a transform of a transform, and no stage
\* after the hit has drawn on it.
C22_PipelineFirstHit ==
  (run.strategy \in Pipelines /\ run.done) =>
     LET steps == StagesOf(run.strategy)
         hits == StageHits(run.canvas, steps)
         last == IF hits = {} THEN Len(steps) ELSE First(hits)
     IN /\ DataOf(run.result.qrs) =
             IF hits = {} THEN <<>>
             ELSE StageScan(run.canvas, steps, last).foundCodes
        /\ run.left = StageScan(run.canvas, steps, last).context

\* A stage found nothing, a later stage of the same strategy found a code
\* in the starting pixels and painted it out.
C22_Witness ==
  /\ run.strategy \in Pipelines /\ run.done
  /\ run.result.qrs # <<>>
  /\ First(StageHits(run.canvas, StagesOf(run.strategy))) > 1
  /\ Len(run.left.marks) < Len(run.canvas.marks)

\* The grid of regionBasedScanning on canvas c: the origins k * step below
\* the extent, the tile at each pair of origins cut at the canvas edge, and
\* the payloads scanAndClearLoop finds in a tile.
Origins(extent, step) ==
  { k * step : k \in { n \in 0..extent : n * step < extent } }
Tiles(c) ==
  { [x |-> x, y |-> y,
     w |-> Min(RegionSize(c), c.width - x),
     h |-> Min(RegionSize(c), c.height - y)] :
    x \in Origins(c.width, RegionStep(c)),
    y \in Origins(c.height, RegionStep(c)) }
ScannedTiles(c) ==
  { t \in Tiles(c) :
      t.w >= MIN_REGION_DIMENSION /\ t.h >= MIN_REGION_DIMENSION }
TileHits(c, t) ==
  LET codes == scanAndClearLoop(DrawRegion(c, t.x, t.y, t.w, t.h)).foundCodes
  IN { codes[i] : i \in 1..Len(codes) }

\* C23 as stated: regionBasedScanning returns the payloads found in the
\* tiles of its grid, all of them, on a buffer of any size.
C23_EveryTileScanned ==
  (run.strategy = "region-based" /\ run.done) =>
     DataSet(run.result.qrs) =
       UNION { TileHits(run.canvas, t) : t \in Tiles(run.canvas) }

\* C23, amended: regionBasedScanning returns the payloads found in the
\* tiles of its grid that are at least 100 pixels wide and high, all of
\* them (a hit in one tile does not end the scan); the smaller tiles are
\* not scanned.
C23_EveryLargeTileScanned ==
  (run.strategy = "region-based" /\ run.done) =>
     DataSet(run.result.qrs) =
       UNION { TileHits(run.canvas, t) : t \in ScannedTiles(run.canvas) }

\* Two tiles yielded different payloads, both are in the result, and a
\* tile narrower than 100 pixels holding a code was left out.
C23_Witness ==
  /\ run.strategy = "region-based" /\ run.done
  /\ \E t, u \in ScannedTiles(run.canvas) :
        /\ TileHits(run.canvas, t) # {}
        /\ TileHits(run.canvas, u) # {}
        /\ TileHits(run.canvas, t) \cap TileHits(run.canvas, u) = {}
  /\ \E t \in Tiles(run.canvas) \ ScannedTiles(run.canvas) :
        ~(TileHits(run.canvas, t) \subseteq DataSet(run.result.qrs))

\* ------------------------------------------------ binarization methods
\* The two classes a threshold t makes of the pixels of an image (the
\* luminances up to t, and those above t), and the thresholds that leave
\* neither class empty.
RECURSIVE SumOver(_, _)
SumOver(data, S) ==
  IF S = {} THEN 0
  ELSE LET i == CHOOSE i \in S : TRUE IN data[i] + SumOver(data, S \ {i})

LowerClass(imageData, t) ==
  { i \in 1..Len(imageData.data) : imageData.data[i] <= t }
UpperClass(imageData, t) ==
  { i \in 1..Len(imageData.data) : imageData.data[i] > t }
Separating(imageData) ==
  { t \in 0..(HISTOGRAM_BINS - 1) :
      LowerClass(imageData, t) # {} /\ UpperClass(imageData, t) # {} }

\* The between-class variance of the partition at t is
\* wB * wF * (mB - mF)^2 = Spread(t)^2 / (wB * wF): the partition at t is
\* at least as good as the one at u.
Spread(imageData, t) ==
  SumOver(imageData.data, LowerClass(imageData, t))
    * Cardinality(UpperClass(imageData, t))
  - SumOver(imageData.data, UpperClass(imageData, t))
    * Cardinality(LowerClass(imageData, t))
Weights(imageData, t) ==
  Cardinality(LowerClass(imageData, t)) * Cardinality(UpperClass(imageData, t))
AtLeastAsGood(imageData, t, u) ==
  Spread(imageData, t) * Spread(imageData, t) * Weights(imageData, u)
    >= Spread(imageData, u) * Spread(imageData, u) * Weights(imageData, t)

OtsuDone == pixels.method = "otsu" /\ pixels.done

\* The threshold otsu chooses separates the pixels into the two classes
\* of largest between-class variance.
OtsuMaximizes ==
  (OtsuDone /\ Separating(pixels.imageData) # {}) =>
     \E t \in {OtsuThreshold(pixels.imageData)} :
        /\ t \in Separating(pixels.imageData)
        /\ \A u \in Separating(pixels.imageData) :
             AtLeastAsGood(pixels.imageData, t, u)

\* The output is black on the lower class of the chosen threshold and
\* white on the upper class.
OtsuBinarizesItsPartition ==
  (OtsuDone /\ Separating(pixels.imageData) # {}) =>
     \E t \in {OtsuThreshold(pixels.imageData)} :
        \A i \in 1..Len(pixels.imageData.data) :
          pixels.output.data[i] =
            IF i \in LowerClass(pixels.imageData, t) THEN BLACK ELSE WHITE

\* C24 as stated: otsu picks the threshold of largest between-class
\* variance and outputs the pixels of its lower class black and those of
\* its upper class white.
C24_OtsuBinarizesOptimalPartition ==
  OtsuMaximizes /\ OtsuBinarizesItsPartition

\* The image with every luminance raised by c, and the shifts that do not
\* clip.
Shifted(imageData, c) ==
  [imageData EXCEPT !.data = [i \in 1..Len(@) |-> @[i] + c]]
Unclipped(imageData, c) ==
  \A i \in 1..Len(imageData.data) : imageData.data[i] + c <= WHITE

\* C25 as stated: otsu puts every pixel of an image in the same class as
\* the pixel of the image with every luminance raised by a constant, when
\* no luminance is clipped.
C25_OtsuShiftInvariant ==
  OtsuDone =>
     \A c \in 1..MaxShift :
       Unclipped(pixels.imageData, c) =>
         otsu(Shifted(pixels.imageData, c)).data = pixels.output.data

\* The pixels of the window of (x, y) clamped to the image, as indices of
\* data.
WindowPixels(imageData, halfWindow, x, y) ==
  { i \in 1..Len(imageData.data) :
      /\ (i - 1) % imageData.width >= x - halfWindow
      /\ (i - 1) % imageData.width <= x + halfWindow
      /\ (i - 1) \div imageData.width >= y - halfWindow
      /\ (i - 1) \div imageData.width <= y + halfWindow }

Positions(imageData) ==
  (0..(imageData.width - 1)) \X (0..(imageData.height - 1))

AdaptiveDone == pixels.method \in AdaptiveMethods /\ pixels.done

\* The sum adaptive reads from its integral image for the window of a
\* pixel is the sum of the luminances of the pixels of that window.
IntegralSumIsWindowSum ==
  AdaptiveDone =>
     \A p \in Positions(pixels.imageData) :
       WindowSum(BuildIntegralImage(pixels.imageData, <<>>),
                 pixels.imageData.width,
                 Window(pixels.imageData, WindowSizeOf(pixels.method) \div 2,
                        p[1], p[2]))
       = SumOver(pixels.imageData.data,
                 WindowPixels(pixels.imageData,
                              WindowSizeOf(pixels.method) \div 2, p[1], p[2]))

\* A pixel is output white when its luminance is above (1 - threshold)
\* times the mean luminance of its window, the sum of the window divided
\* by its number of pixels, and black otherwise.
ComparedWithWindowMean ==
  AdaptiveDone =>
     \A p \in Positions(pixels.imageData) :
       LET window == WindowPixels(pixels.imageData,
                                  WindowSizeOf(pixels.method) \div 2, p[1], p[2])
       IN (At(pixels.output.data, pixels.imageData.width, p[1], p[2]) = WHITE)
          <=> (At(pixels.imageData.data, pixels.imageData.width, p[1], p[2])
                 * Cardinality(window) * 100
               > SumOver(pixels.imageData.data, window)
                 * (100 - AdaptiveThresholdOf(pixels.method)))

\* C26 as stated: adaptive reads the sum of the clamped window from the
\* integral image, divides it by the number of pixels of that window and
\* binarizes the pixel against that mean times the sensitivity.
C26_AdaptiveUsesWindowMean ==
  IntegralSumIsWindowSum /\ ComparedWithWindowMean

\* ------------------------------------------- the QR generation cache
KeysOf(cache) == { cache[i] : i \in 1..Len(cache) }

\* C27 as stated: the cache never holds more than 100 entries, and the
\* entry a step removes from it is the least recently used one, a hit
\* counting as a use.
C27_CacheIsLru ==
  /\ [](Len(qrCodeCache) <= CACHE_LIMIT)
  /\ [][\A k \in KeysOf(qrCodeCache) \ KeysOf(qrCodeCache') :
          k = Head(used)]_vars

\* The cache never holds more than 100 entries, and the entry a step
\* removes is the one inserted first.
CacheIsFifo ==
  /\ [](Len(qrCodeCache) <= CACHE_LIMIT)
  /\ [][\A k \in KeysOf(qrCodeCache) \ KeysOf(qrCodeCache') :
          k = Head(qrCodeCache)]_vars

\* ------------------------------------------------------ a second batch

\* C28: a batch sent after the first batch's 'complete' is handled like
\* the first: while the batch's allFilesSent has been sent at most once and
\* no task after it, 'complete' is posted at most once, and it is posted
\* only in a step after which the batch's allFilesSent has been received,
\* the queue is empty and no task is being processed.
C28_SecondBatchCompleteOnce ==
  /\ [](OneBatch => completes <= 1)
  /\ [][completes' > completes =>
          /\ signals' >= 1
          /\ messageQueue' = <<>>
          /\ Idle']_vars

\* ------------------------------------------------------ progress counts

\* The progress events posted by the last step.
ProgressEvents ==
  {posted[i].payload : i \in {j \in 1..Len(posted) : posted[j].type = "progress"}}

\* C29: in every progress event 1 <= processed <= total, and the event of
\* a processed page reports one more than the pages counted before it,
\* whatever the order of page-count declarations and page tasks.
C29_ProgressCountWithinTotal ==
  /\ [](\A p \in ProgressEvents : 1 <= p.processed /\ p.processed <= p.total)
  /\ [][\A p \in ProgressEvents' : p.processed = processedPages + 1]_vars

\* ---------------------------------------------------- the App's timers

\* A step of one of the two copy handlers.
CopyStep == \E entry \in Entries : handleCopy(entry)
GeneratedCopyStep == \E id \in Entries : handleCopyGeneratedQR(id)

\* C30: a copy cancels only the pending reset of its own list: it leaves
\* the other list's reset and the elapsed-time interval as they are, so
\* that the interval is live as long as the batch is processed and every
\* 'copied' mark is taken away again.
C30_CopyCancelsOnlyItsOwnReset ==
  /\ [][CopyStep => UNCHANGED <<generatedCopiedTimeoutRef, timerRef>>]_vars
  /\ [][GeneratedCopyStep => UNCHANGED <<copiedTimeoutRef, timerRef>>]_vars
  /\ [](status = "processing" => timerRef = "live")
  /\ [](copiedInfo # NoCopy => <>(copiedInfo = NoCopy))
  /\ [](copiedGeneratedId # NoCopy => <>(copiedGeneratedId = NoCopy))

====
